---- MODULE Spec2Model ----
(***************************************************************************)
(* A model of nnet3/nnet-training.cc: the NnetTrainer step (Train,         *)
(* TrainInternal, ProcessOutputs), the statistics record                   *)
(* ObjectiveFunctionInfo and ComputeObjectiveFunction.                     *)
(*                                                                         *)
(* BaseFloat values are modelled as exact rationals <<n, d>> in lowest     *)
(* terms with d > 0; <<0, 0>> stands for a non-finite value (NaN or inf).  *)
(* The model and the delta model have one updatable component holding one  *)
(* parameter.                                                              *)
(*                                                                         *)
(* Four specifications: Spec (the trainer under Train calls), SpecAll (the *)
(* trainer under Train, PrintTotalStats and PerturbInputWithInputDeriv),   *)
(* SpecStats (one statistics record) and SpecObjf (one call of             *)
(* ComputeObjectiveFunction).                                              *)
(***************************************************************************)
EXTENDS Integers, Naturals, Sequences, FiniteSets, TLC

(***************************************************************************)
(* BaseFloat arithmetic                                                    *)
(***************************************************************************)
Abs(x) == IF x < 0 THEN -x ELSE x

RECURSIVE Gcd(_, _)
Gcd(a, b) == IF b = 0 THEN a ELSE Gcd(b, a % b)

NaN == <<0, 0>>

IsFinite(a) == a[2] # 0

\* the rational n/d in lowest terms with a positive denominator
Rat(n, d) ==
  IF d = 0 THEN NaN
  ELSE LET g == Gcd(Abs(n), Abs(d))
           s == IF d < 0 THEN -1 ELSE 1
       IN  <<(s * n) \div g, (s * d) \div g>>

Zero == Rat(0, 1)

One == Rat(1, 1)

\* the sum, over the least common denominator to keep the integers small
RAdd(a, b) ==
  IF IsFinite(a) /\ IsFinite(b)
  THEN LET g == Gcd(a[2], b[2])
       IN  Rat(a[1] * (b[2] \div g) + b[1] * (a[2] \div g),
               (a[2] \div g) * b[2])
  ELSE NaN

RNeg(a) == IF IsFinite(a) THEN <<-a[1], a[2]>> ELSE NaN

RSub(a, b) == RAdd(a, RNeg(b))

RMul(a, b) ==
  IF IsFinite(a) /\ IsFinite(b) THEN Rat(a[1] * b[1], a[2] * b[2]) ELSE NaN

RDiv(a, b) ==
  IF IsFinite(a) /\ IsFinite(b) /\ b[1] # 0 THEN Rat(a[1] * b[2], a[2] * b[1])
  ELSE NaN

RAbs(a) == IF IsFinite(a) THEN <<Abs(a[1]), a[2]>> ELSE NaN

\* comparisons are false when either side is not finite, as for a NaN
RLess(a, b) == IsFinite(a) /\ IsFinite(b) /\ a[1] * b[2] < b[1] * a[2]

RGreater(a, b) == RLess(b, a)

RGeq(a, b) == IsFinite(a) /\ IsFinite(b) /\ a[1] * b[2] >= b[1] * a[2]

\* int32 division: C++ truncates toward zero
CDiv(a, b) ==
  IF (a >= 0) = (b > 0) THEN Abs(a) \div Abs(b) ELSE -(Abs(a) \div Abs(b))

\* int32 remainder, with the sign of the dividend
CMod(a, b) == a - b * CDiv(a, b)

(***************************************************************************)
(* ObjectiveFunctionInfo                                                   *)
(***************************************************************************)
\* a record as its default constructor leaves it
NewObjectiveFunctionInfo ==
  [current_phase |-> 0,
   tot_weight |-> Zero, tot_objf |-> Zero, tot_aux_objf |-> Zero,
   tot_weight_this_phase |-> Zero, tot_objf_this_phase |-> Zero,
   tot_aux_objf_this_phase |-> Zero]

\* a faulty variant: the end of the range taken one too far
PrintStatsForThisPhase_EndOffByOne(info, minibatches_per_phase) ==
  LET start_minibatch == info.current_phase * minibatches_per_phase
      end_minibatch == start_minibatch + minibatches_per_phase
  IN  [start_minibatch |-> start_minibatch, end_minibatch |-> end_minibatch,
       tot_objf |-> info.tot_objf_this_phase,
       tot_aux_objf |-> info.tot_aux_objf_this_phase,
       tot_weight |-> info.tot_weight_this_phase]

\* the minibatch range a phase flush writes to the log
PrintStatsForThisPhase(info, minibatches_per_phase) ==
  LET start_minibatch == info.current_phase * minibatches_per_phase
      end_minibatch == start_minibatch + minibatches_per_phase - 1
  IN  [start_minibatch |-> start_minibatch, end_minibatch |-> end_minibatch,
       tot_objf |-> info.tot_objf_this_phase,
       tot_aux_objf |-> info.tot_aux_objf_this_phase,
       tot_weight |-> info.tot_weight_this_phase]

\* the accumulation at the end of UpdateStats
Accumulate(info, w, objf, aux) ==
  [info EXCEPT !.tot_weight_this_phase = RAdd(@, w),
               !.tot_objf_this_phase = RAdd(@, objf),
               !.tot_aux_objf_this_phase = RAdd(@, aux),
               !.tot_weight = RAdd(@, w),
               !.tot_objf = RAdd(@, objf),
               !.tot_aux_objf = RAdd(@, aux)]

\* a faulty variant: the remainder of the division taken for the phase
PhaseOf_Remainder(minibatch_counter, minibatches_per_phase) ==
  CMod(minibatch_counter, minibatches_per_phase)

\* the phase a minibatch counter falls in
PhaseOf(minibatch_counter, minibatches_per_phase) ==
  CDiv(minibatch_counter, minibatches_per_phase)

\* a faulty variant: the call returning true whatever the weight
ObjectiveFunctionInfo_PrintTotalStats_AlwaysTrue(info) ==
  [info |-> info,
   objf |-> RDiv(info.tot_objf, info.tot_weight),
   aux_objf |-> RDiv(info.tot_aux_objf, info.tot_weight),
   ans |-> TRUE]

\* ObjectiveFunctionInfo::PrintTotalStats: the record after the call (the
\* method is const), the averages it logs and the value it returns
ObjectiveFunctionInfo_PrintTotalStats(info) ==
  [info |-> info,
   objf |-> RDiv(info.tot_objf, info.tot_weight),
   aux_objf |-> RDiv(info.tot_aux_objf, info.tot_weight),
   ans |-> info.tot_weight # Zero]

\* a faulty variant: the assertion left out
PhaseAssertFails_Never(phase, current_phase) == FALSE

\* whether the assertion of UpdateStats fails for this phase
PhaseAssertFails(phase, current_phase) ==
  phase # current_phase /\ ~(phase > current_phase)

\* a faulty variant: the phase change resetting the lifetime totals as well
StartPhase_ResetsLifetime(info, phase) ==
  [info EXCEPT !.current_phase = phase,
               !.tot_weight_this_phase = Zero,
               !.tot_objf_this_phase = Zero,
               !.tot_aux_objf_this_phase = Zero,
               !.tot_weight = Zero,
               !.tot_objf = Zero,
               !.tot_aux_objf = Zero]

\* the phase change of UpdateStats: the record with the new phase and the
\* phase totals reset
StartPhase(info, phase) ==
  [info EXCEPT !.current_phase = phase,
               !.tot_weight_this_phase = Zero,
               !.tot_objf_this_phase = Zero,
               !.tot_aux_objf_this_phase = Zero]

\* UpdateStats: the record after the call, what the call logged, and whether
\* its assertion failed (the record is then as it was when the process died)
UpdateStats(info, minibatches_per_phase, minibatch_counter, w, objf, aux) ==
  LET phase == PhaseOf(minibatch_counter, minibatches_per_phase)
  IN  IF phase # info.current_phase
      THEN IF PhaseAssertFails(phase, info.current_phase)
           THEN [info |-> info, log |-> <<>>, failed |-> TRUE]
           ELSE [info |-> Accumulate(StartPhase(info, phase), w, objf, aux),
                 log |-> <<PrintStatsForThisPhase(info, minibatches_per_phase)>>,
                 failed |-> FALSE]
      ELSE [info |-> Accumulate(info, w, objf, aux), log |-> <<>>,
            failed |-> FALSE]

(***************************************************************************)
(* Matrices and supervision encodings                                      *)
(*                                                                         *)
(* A dense matrix is a sequence of rows, each a sequence of BaseFloat.  A  *)
(* GeneralMatrix is a record tagged with its encoding: kFullMatrix holds a *)
(* dense matrix, kSparseMatrix holds each row as a sequence of             *)
(* <<column, value>> pairs (columns from 1), kCompressedMatrix holds one   *)
(* byte per element and a header (min_value, range).                       *)
(***************************************************************************)
RECURSIVE SumSeq(_)
SumSeq(row) ==
  IF row = <<>> THEN Zero ELSE RAdd(row[1], SumSeq(Tail(row)))

MatNumRows(m) == Len(m)

MatNumCols(m) == IF Len(m) = 0 THEN 0 ELSE Len(m[1])

\* CuMatrixBase::Sum
MatSum(m) == SumSeq([r \in 1..Len(m) |-> SumSeq(m[r])])

\* the largest code of a compressed element (one byte)
CompressedMaxCode == 255

\* CompressedMatrix::CopyToMat of one element
Uncompress(min_value, range, code) ==
  RAdd(min_value, RMul(range, Rat(code, CompressedMaxCode)))

\* SparseVector element lookup: the sum of the pairs stored for a column
RECURSIVE SparseAt(_, _)
SparseAt(pairs, c) ==
  IF pairs = <<>> THEN Zero
  ELSE RAdd(IF pairs[1][1] = c THEN pairs[1][2] ELSE Zero,
            SparseAt(Tail(pairs), c))

\* GeneralMatrix::NumRows
NumRows(g) ==
  CASE g.type = "kFullMatrix" -> MatNumRows(g.mat)
    [] g.type = "kSparseMatrix" -> Len(g.rows)
    [] g.type = "kCompressedMatrix" -> MatNumRows(g.codes)

\* GeneralMatrix::NumCols
NumCols(g) ==
  CASE g.type = "kFullMatrix" -> MatNumCols(g.mat)
    [] g.type = "kSparseMatrix" -> g.num_cols
    [] g.type = "kCompressedMatrix" -> MatNumCols(g.codes)

\* CuSparseMatrix::CopyToMat: the dense matrix of a sparse one
SparseCopyToMat(g) ==
  [r \in 1..Len(g.rows) |-> [c \in 1..g.num_cols |-> SparseAt(g.rows[r], c)]]

\* CuSparseMatrix::Sum: the sum of the stored values
SparseSum(g) ==
  SumSeq([r \in 1..Len(g.rows) |->
            SumSeq([k \in 1..Len(g.rows[r]) |-> g.rows[r][k][2]])])

\* GeneralMatrix::GetMatrix of a compressed matrix
GetMatrix(g) ==
  [r \in 1..Len(g.codes) |->
     [c \in 1..Len(g.codes[r]) |->
        Uncompress(g.min_value, g.range, g.codes[r][c])]]

\* CuMatrix::CopyFromGeneralMat: the dense matrix of any encoding
CopyFromGeneralMat(g) ==
  CASE g.type = "kFullMatrix" -> g.mat
    [] g.type = "kSparseMatrix" -> SparseCopyToMat(g)
    [] g.type = "kCompressedMatrix" -> GetMatrix(g)

\* the largest integer not above a finite value
RFloor(a) == a[1] \div a[2]

\* the smallest and the largest element of a dense matrix with an element
MatMin(m) ==
  CHOOSE v \in { m[r][c] : r \in 1..Len(m), c \in 1..Len(m[1]) } :
    \A r \in 1..Len(m), c \in 1..Len(m[1]) : ~RLess(m[r][c], v)

MatMax(m) ==
  CHOOSE v \in { m[r][c] : r \in 1..Len(m), c \in 1..Len(m[1]) } :
    \A r \in 1..Len(m), c \in 1..Len(m[1]) : ~RGreater(m[r][c], v)

\* the code CompressedMatrix stores for an element: its place between the
\* smallest and the largest element, rounded to a whole code
CompressElement(min_value, range, v) ==
  IF range = Zero THEN 0
  ELSE RFloor(RAdd(RMul(RDiv(RSub(v, min_value), range),
                        Rat(CompressedMaxCode, 1)),
                   Rat(1, 2)))

\* a GeneralMatrix holding the compressed encoding of a dense matrix
CompressedMatrixOf(m) ==
  LET min_value == MatMin(m)
      range == RSub(MatMax(m), min_value)
  IN  [type |-> "kCompressedMatrix", min_value |-> min_value, range |-> range,
       codes |-> [r \in 1..Len(m) |->
                    [c \in 1..Len(m[r]) |->
                       CompressElement(min_value, range, m[r][c])]]]

\* the (column, value) pairs of the elements of a row that are not zero
RECURSIVE SparseRowFrom(_, _)
SparseRowFrom(row, c) ==
  IF c > Len(row) THEN <<>>
  ELSE (IF row[c] = Zero THEN <<>> ELSE << <<c, row[c]>> >>) \o
       SparseRowFrom(row, c + 1)

\* a GeneralMatrix holding the sparse encoding of a dense matrix
SparseMatrixOf(m) ==
  [type |-> "kSparseMatrix", num_cols |-> MatNumCols(m),
   rows |-> [r \in 1..Len(m) |-> SparseRowFrom(m[r], 1)]]

\* a GeneralMatrix holding a dense matrix as it is
FullMatrixOf(m) == [type |-> "kFullMatrix", mat |-> m]

\* the GeneralMatrix of a dense matrix in an encoding
GeneralMatrixOf(m, type) ==
  CASE type = "kSparseMatrix" -> SparseMatrixOf(m)
    [] type = "kFullMatrix" -> FullMatrixOf(m)
    [] type = "kCompressedMatrix" -> CompressedMatrixOf(m)

\* TraceMatMat(A, B, kTrans): the sum over elements of A(r, c) * B(r, c)
TraceMatMat(a, b) ==
  SumSeq([r \in 1..Len(a) |->
            SumSeq([c \in 1..Len(a[r]) |-> RMul(a[r][c], b[r][c])])])

\* TraceMatSmat(A, B, kTrans): the sum over stored pairs of A(r, col) * value
TraceMatSmat(a, g) ==
  SumSeq([r \in 1..Len(g.rows) |->
            SumSeq([k \in 1..Len(g.rows[r]) |->
                      RMul(a[r][g.rows[r][k][1]], g.rows[r][k][2])])])

\* CuMatrix::AddMat(alpha, B) on A
MatAddMat(a, alpha, b) ==
  [r \in 1..Len(a) |-> [c \in 1..Len(a[r]) |-> RAdd(a[r][c], RMul(alpha, b[r][c]))]]

(***************************************************************************)
(* ComputeObjectiveFunction                                                *)
(***************************************************************************)
NoDeriv == [given |-> FALSE, mat |-> <<>>]

ObjfFailure == [failed |-> TRUE, tot_weight |-> Zero, tot_objf |-> Zero,
                deriv |-> NoDeriv]

ObjfResult(w, f, supply_deriv, m) ==
  [failed |-> FALSE, tot_weight |-> w, tot_objf |-> f,
   deriv |-> IF supply_deriv THEN [given |-> TRUE, mat |-> m] ELSE NoDeriv]

\* a faulty variant: the total weight of a dense supervision taken from the output
LinearObjective_WeightFromOutput(supervision, output, supply_deriv) ==
  CASE supervision.type = "kSparseMatrix" ->
         ObjfResult(SparseSum(supervision), TraceMatSmat(output, supervision),
                    supply_deriv, SparseCopyToMat(supervision))
    [] supervision.type = "kFullMatrix" ->
         ObjfResult(MatSum(output), TraceMatMat(output, supervision.mat),
                    supply_deriv, supervision.mat)
    [] supervision.type = "kCompressedMatrix" ->
         LET post == GetMatrix(supervision)
         IN  ObjfResult(MatSum(post), TraceMatMat(output, post),
                        supply_deriv, post)

\* the kLinear case, by supervision encoding
LinearObjective(supervision, output, supply_deriv) ==
  CASE supervision.type = "kSparseMatrix" ->
         ObjfResult(SparseSum(supervision), TraceMatSmat(output, supervision),
                    supply_deriv, SparseCopyToMat(supervision))
    [] supervision.type = "kFullMatrix" ->
         ObjfResult(MatSum(supervision.mat), TraceMatMat(output, supervision.mat),
                    supply_deriv, supervision.mat)
    [] supervision.type = "kCompressedMatrix" ->
         LET post == GetMatrix(supervision)
         IN  ObjfResult(MatSum(post), TraceMatMat(output, post),
                        supply_deriv, post)

\* a faulty variant: the difference taken as output minus supervision
QuadraticObjective_OutputMinusSupervision(supervision, output, supply_deriv) ==
  LET diff == MatAddMat(output, Rat(-1, 1), CopyFromGeneralMat(supervision))
  IN  ObjfResult(Rat(MatNumRows(diff), 1),
                 RMul(Rat(-1, 2), TraceMatMat(diff, diff)),
                 supply_deriv, diff)

\* the kQuadratic case
QuadraticObjective(supervision, output, supply_deriv) ==
  LET diff == MatAddMat(CopyFromGeneralMat(supervision), Rat(-1, 1), output)
  IN  ObjfResult(Rat(MatNumRows(diff), 1),
                 RMul(Rat(-1, 2), TraceMatMat(diff, diff)),
                 supply_deriv, diff)

\* a faulty variant: any other objective type falling through to kQuadratic
ComputeObjectiveFunction_DefaultQuadratic(supervision, objective_type, output, supply_deriv) ==
  IF MatNumCols(output) # NumCols(supervision) THEN ObjfFailure
  ELSE CASE objective_type = "kLinear" ->
              LinearObjective(supervision, output, supply_deriv)
         [] OTHER ->
              QuadraticObjective(supervision, output, supply_deriv)

\* ComputeObjectiveFunction: whether it raised an error, the totals it wrote
\* and the derivative it gave to the computer
ComputeObjectiveFunction(supervision, objective_type, output, supply_deriv) ==
  IF MatNumCols(output) # NumCols(supervision) THEN ObjfFailure
  ELSE CASE objective_type = "kLinear" ->
              LinearObjective(supervision, output, supply_deriv)
         [] objective_type = "kQuadratic" ->
              QuadraticObjective(supervision, output, supply_deriv)
         [] OTHER -> ObjfFailure

\* the first column holding the largest value of a row
RECURSIVE ArgMaxFrom(_, _, _)
ArgMaxFrom(row, c, best) ==
  IF c > Len(row) THEN best
  ELSE ArgMaxFrom(row, c + 1, IF RGreater(row[c], row[best]) THEN c ELSE best)

\* ComputeAccuracy: the number of rows, and the number of rows where the
\* output's best column is the supervision's best column
ComputeAccuracy(supervision, output) ==
  LET sup == CopyFromGeneralMat(supervision)
      hit(r) == IF ArgMaxFrom(sup[r], 1, 1) = ArgMaxFrom(output[r], 1, 1)
                THEN One ELSE Zero
  IN  [tot_weight |-> Rat(MatNumRows(sup), 1),
       tot_accuracy |-> SumSeq([r \in 1..Len(sup) |-> hit(r)])]

(***************************************************************************)
(* The network, the examples and the external update engine                *)
(***************************************************************************)
\* Nnet::GetNodeIndex for a network with one input and one output node
GetNodeIndex(name) ==
  CASE name = "input" -> 0
    [] name = "output" -> 1
    [] OTHER -> -1

IsOutputNode(node_index) == node_index = 1

\* ScaleNnet: a scale of 0 sets the parameters to zero whatever they hold
ScaleNnet(scale, params) ==
  IF scale = Zero THEN Zero
  ELSE IF scale = One THEN params
  ELSE RMul(scale, params)

\* UpdateNnetWithMaxChange for one updatable component: the contribution
\* delta * scale_adding is limited to the component's max-change times
\* max_change_scale, then to max_param_change times max_change_scale; the
\* update fails, applying nothing, when the resulting scaling factor is not
\* finite or not positive
UpdateNnetWithMaxChange(delta, max_param_change, max_change_scale, scale_adding, nnet, per_component, global) ==
  LET contrib == RMul(delta, scale_adding)
      norm == RAbs(contrib)
      comp_limit == RMul(nnet.max_change, max_change_scale)
      comp_clipped == RGreater(norm, comp_limit)
      norm1 == IF comp_clipped THEN comp_limit ELSE norm
      global_limit == RMul(max_param_change, max_change_scale)
      global_clipped == RGreater(norm1, global_limit)
      norm2 == IF global_clipped THEN global_limit ELSE norm1
      factor == IF norm = Zero THEN One ELSE RDiv(norm2, norm)
      success == IsFinite(factor) /\ RGreater(factor, Zero)
  IN  [success |-> success,
       params |-> IF success THEN RAdd(nnet.params, RMul(contrib, factor))
                  ELSE nnet.params,
       per_component |->
         [i \in 1..Len(per_component) |->
            per_component[i] + (IF comp_clipped THEN 1 ELSE 0)],
       global |-> global + (IF global_clipped THEN 1 ELSE 0)]

(***************************************************************************)
(* NnetTrainer                                                             *)
(***************************************************************************)
VARIABLES config_, nnet_, delta_nnet_, num_minibatches_processed_,
          srand_seed_, rng, num_max_change_per_component_applied_,
          num_max_change_global_applied_, objf_info_, accuracy_info_,
          pc, eg, events, subs, prev_subs, trains_returned, call_counter,
          substeps_run, returned, num_perturbs

tr_vars == <<config_, nnet_, delta_nnet_, num_minibatches_processed_,
             srand_seed_, rng, num_max_change_per_component_applied_,
             num_max_change_global_applied_, objf_info_, accuracy_info_,
             pc, eg, events, subs, prev_subs, trains_returned,
             call_counter, substeps_run, returned, num_perturbs>>

\* the largest number of Train calls made on the trainer
MaxMinibatches == 3

\* the configurations tried
Configs ==
  [momentum : {Rat(-1, 2), Zero, Rat(1, 2)},
   max_param_change : {Rat(-1, 1), Rat(2, 1)},
   backstitch_training_scale : {Zero, Rat(1, 2)},
   backstitch_training_interval : {1, 2},
   print_interval : {1, 2},
   perturb_epsilon : {Rat(1, 4)}]

\* the networks tried: the objective of the output node, with one parameter
\* and a per-component max-change of 5/2
Nnets ==
  [params : {One}, objective_type : {"kLinear", "kQuadratic"},
   max_change : {Rat(5, 2)}]

\* the values RandInt(0, 100000) is taken to return
SeedChoices == {0, 7}

SparseSupervision ==
  [type |-> "kSparseMatrix", num_cols |-> 2, rows |-> << << <<2, One>> >> >>]

WideSupervision ==
  [type |-> "kFullMatrix", mat |-> << <<Zero, One, Zero>> >>]

InputFeatures == [type |-> "kFullMatrix", mat |-> << <<One>> >>]

\* the examples tried: a well-formed one, one whose supervision has a column
\* too many, and one naming a node the network does not have
Examples ==
  { [io |-> <<[name |-> "input", features |-> InputFeatures],
              [name |-> "output", features |-> SparseSupervision]>>],
    [io |-> <<[name |-> "input", features |-> InputFeatures],
              [name |-> "output", features |-> WideSupervision]>>],
    [io |-> <<[name |-> "ivector", features |-> InputFeatures]>>] }

NoExample == [io |-> <<>>]

\* what the forward pass may compute for the output node
Outputs == { << <<Rat(-2, 1), Rat(-1, 1)>> >> }

\* what one backward pass may add to the delta model
Gradients == { One, Rat(3, 1), NaN }

\* what the backward pass of PerturbInputWithInputDeriv may compute as the
\* derivative of the objective with respect to the one input feature
InputDerivs == { Zero, Rat(-2, 1) }

\* the largest number of PerturbInputWithInputDeriv calls made on the trainer
MaxPerturbs == 1

\* the result of the most recent call other than Train, when there is none
NothingReturned == [op |-> "none"]

\* the statistics record for a name, default-constructed when absent
InfoOf(map, name) ==
  IF name \in DOMAIN map THEN map[name] ELSE NewObjectiveFunctionInfo

Put(map, name, info) == (name :> info) @@ map

Suffix(is_backstitch_step) == IF is_backstitch_step THEN "_backstitch" ELSE ""

\* the body of the loop of ProcessOutputs for one stream of the example
ProcessOneOutput(st, io, is_backstitch_step, output, objective_type, print_interval, counter) ==
  LET node_index == GetNodeIndex(io.name)
      key == io.name \o Suffix(is_backstitch_step)
  IN  IF ~(node_index >= 0) THEN [st EXCEPT !.failed = TRUE]
      ELSE IF ~IsOutputNode(node_index) THEN st
      ELSE
        LET obj == ComputeObjectiveFunction(io.features, objective_type,
                                            output, TRUE)
            u == UpdateStats(InfoOf(st.objf_info, key), print_interval,
                             counter, obj.tot_weight, obj.tot_objf, Zero)
            acc == ComputeAccuracy(io.features, output)
            a == UpdateStats(InfoOf(st.accuracy_info, key), print_interval,
                             counter, acc.tot_weight, acc.tot_accuracy, Zero)
        IN  IF obj.failed THEN [st EXCEPT !.failed = TRUE]
            ELSE IF u.failed
            THEN [st EXCEPT !.failed = TRUE, !.derivs = Append(@, obj.deriv)]
            ELSE IF objective_type # "kLinear"
            THEN [st EXCEPT !.objf_info = Put(@, key, u.info),
                            !.derivs = Append(@, obj.deriv)]
            ELSE IF a.failed
            THEN [st EXCEPT !.objf_info = Put(@, key, u.info),
                            !.derivs = Append(@, obj.deriv),
                            !.failed = TRUE]
            ELSE [st EXCEPT !.objf_info = Put(@, key, u.info),
                            !.accuracy_info = Put(@, key, a.info),
                            !.derivs = Append(@, obj.deriv)]

\* ProcessOutputs from stream i of the example on
RECURSIVE ProcessOutputsFrom(_, _, _, _, _, _, _, _)
ProcessOutputsFrom(i, st, io, is_backstitch_step, output, objective_type, print_interval, counter) ==
  IF i > Len(io) \/ st.failed THEN st
  ELSE ProcessOutputsFrom(
         i + 1,
         ProcessOneOutput(st, io[i], is_backstitch_step, output,
                          objective_type, print_interval, counter),
         io, is_backstitch_step, output, objective_type, print_interval,
         counter)

\* ProcessOutputs: the statistics maps after it, the derivatives it gave to
\* the computer, and whether it raised an error
ProcessOutputs(is_backstitch_step, example, output, objf_info, accuracy_info, objective_type, print_interval, counter) ==
  ProcessOutputsFrom(
    1,
    [objf_info |-> objf_info, accuracy_info |-> accuracy_info,
     derivs |-> <<>>, failed |-> FALSE],
    example.io, is_backstitch_step, output, objective_type, print_interval,
    counter)

\* a faulty variant: the un-freeze freezing again
FreezeNaturalGradient_AlwaysFrozen(freeze, delta) ==
  [delta EXCEPT !.frozen = TRUE]

\* FreezeNaturalGradient on the delta model
FreezeNaturalGradient(freeze, delta) == [delta EXCEPT !.frozen = freeze]

\* a faulty variant: the counter incremented once per call of TrainInternal
MinibatchesAfterTrain_PerSubStep(counter, num_substeps) ==
  counter + num_substeps

\* num_minibatches_processed_++ at the end of Train
MinibatchesAfterTrain(counter, num_substeps) == counter + 1

\* a faulty variant: the test of Train without the interval
IsBackstitchMinibatch_IgnoresInterval(config, counter) ==
  RGreater(config.backstitch_training_scale, Zero)

\* the test of Train for a backstitch step
IsBackstitchMinibatch(config, counter) ==
  /\ RGreater(config.backstitch_training_scale, Zero)
  /\ CMod(counter, config.backstitch_training_interval) = 0

\* a faulty variant: the backstitch step adding the delta with the sign of a normal step
UpdateScales_BackstitchSign(config, counter, is_backstitch_step) ==
  IF /\ RGreater(config.backstitch_training_scale, Zero)
     /\ CMod(counter, config.backstitch_training_interval) = 0
  THEN IF is_backstitch_step
       THEN [max_change_scale |-> config.backstitch_training_scale,
             scale_adding |-> config.backstitch_training_scale,
             scale_delta_nnet |-> Zero]
       ELSE [max_change_scale |-> RAdd(One, config.backstitch_training_scale),
             scale_adding |-> RAdd(One, config.backstitch_training_scale),
             scale_delta_nnet |-> Zero]
  ELSE [max_change_scale |-> One,
        scale_adding |-> RSub(One, config.momentum),
        scale_delta_nnet |-> config.momentum]

\* a faulty variant: the conventional step adding the whole delta, momentum or not
UpdateScales_WholeDelta(config, counter, is_backstitch_step) ==
  IF /\ RGreater(config.backstitch_training_scale, Zero)
     /\ CMod(counter, config.backstitch_training_interval) = 0
  THEN IF is_backstitch_step
       THEN [max_change_scale |-> config.backstitch_training_scale,
             scale_adding |-> RNeg(config.backstitch_training_scale),
             scale_delta_nnet |-> Zero]
       ELSE [max_change_scale |-> RAdd(One, config.backstitch_training_scale),
             scale_adding |-> RAdd(One, config.backstitch_training_scale),
             scale_delta_nnet |-> Zero]
  ELSE [max_change_scale |-> One,
        scale_adding |-> One,
        scale_delta_nnet |-> config.momentum]

\* the scales TrainInternal passes to the update and applies to the delta model
UpdateScales(config, counter, is_backstitch_step) ==
  IF /\ RGreater(config.backstitch_training_scale, Zero)
     /\ CMod(counter, config.backstitch_training_interval) = 0
  THEN IF is_backstitch_step
       THEN [max_change_scale |-> config.backstitch_training_scale,
             scale_adding |-> RNeg(config.backstitch_training_scale),
             scale_delta_nnet |-> Zero]
       ELSE [max_change_scale |-> RAdd(One, config.backstitch_training_scale),
             scale_adding |-> RAdd(One, config.backstitch_training_scale),
             scale_delta_nnet |-> Zero]
  ELSE [max_change_scale |-> One,
        scale_adding |-> RSub(One, config.momentum),
        scale_delta_nnet |-> config.momentum]

\* a faulty variant: the delta model kept whole after a failed update
DeltaScaleAfter_KeptOnFailure(success, scale_delta_nnet) ==
  IF success THEN scale_delta_nnet ELSE One

\* a faulty variant: the delta model scaled the same way after a failed update
DeltaScaleAfter_SameOnFailure(success, scale_delta_nnet) == scale_delta_nnet

\* the scale applied to the delta model after the update
DeltaScaleAfter(success, scale_delta_nnet) ==
  IF success THEN scale_delta_nnet ELSE Zero

\* a faulty variant: the seed without the minibatch counter
Reseed_WithoutCounter(base_seed, counter) == [seed |-> base_seed, draws |-> 0]

\* srand(srand_seed_ + num_minibatches_processed_); ResetGenerators(nnet_)
Reseed(base_seed, counter) == [seed |-> base_seed + counter, draws |-> 0]

\* the constructor's assertion
ConfigAccepted(config) ==
  /\ RGeq(config.momentum, Zero)
  /\ RGeq(config.max_param_change, Zero)

TrainerInit ==
  /\ config_ \in Configs
  /\ nnet_ \in Nnets
  /\ delta_nnet_ = [params |-> NaN, frozen |-> FALSE]
  /\ num_minibatches_processed_ = 0
  /\ srand_seed_ = 0
  /\ rng = [seed |-> 1, draws |-> 0]
  /\ num_max_change_per_component_applied_ = <<>>
  /\ num_max_change_global_applied_ = 0
  /\ objf_info_ = <<>>
  /\ accuracy_info_ = <<>>
  /\ pc = "start"
  /\ eg = NoExample
  /\ events = <<>>
  /\ subs = <<>>
  /\ prev_subs = <<>>
  /\ trains_returned = 0
  /\ call_counter = 0
  /\ substeps_run = 0
  /\ returned = NothingReturned
  /\ num_perturbs = 0

\* NnetTrainer::NnetTrainer
Construct ==
  /\ pc = "start"
  /\ \E seed \in SeedChoices :
       /\ srand_seed_' = seed
       /\ rng' = [rng EXCEPT !.draws = @ + 1]
  /\ IF ConfigAccepted(config_)
     THEN /\ delta_nnet_' = [params |-> ScaleNnet(Zero, nnet_.params),
                             frozen |-> FALSE]
          /\ num_max_change_per_component_applied_' = <<0>>
          /\ pc' = "idle"
     ELSE /\ pc' = "fatal"
          /\ UNCHANGED <<delta_nnet_, num_max_change_per_component_applied_>>
  /\ UNCHANGED <<config_, nnet_, num_minibatches_processed_,
                 num_max_change_global_applied_, objf_info_, accuracy_info_,
                 eg, events, subs, prev_subs, trains_returned, call_counter,
                 substeps_run, returned, num_perturbs>>

\* Train up to its first call of TrainInternal
TrainBegin ==
  /\ pc = "idle"
  /\ trains_returned < MaxMinibatches
  /\ \E e \in Examples : eg' = e
  /\ prev_subs' = subs
  /\ subs' = <<>>
  /\ call_counter' = num_minibatches_processed_
  /\ returned' = NothingReturned
  /\ IF IsBackstitchMinibatch(config_, num_minibatches_processed_)
     THEN IF config_.momentum = Zero
          THEN /\ delta_nnet_' = FreezeNaturalGradient(TRUE, delta_nnet_)
               /\ rng' = Reseed(srand_seed_, num_minibatches_processed_)
               /\ events' = << <<"freeze", 0>>, <<"srand", rng'.seed>> >>
               /\ pc' = "backstitch_step"
          ELSE /\ pc' = "fatal"
               /\ events' = <<>>
               /\ UNCHANGED <<delta_nnet_, rng>>
     ELSE /\ pc' = "conventional_step"
          /\ events' = <<>>
          /\ UNCHANGED <<delta_nnet_, rng>>
  /\ UNCHANGED <<config_, nnet_, num_minibatches_processed_, srand_seed_,
                 num_max_change_per_component_applied_,
                 num_max_change_global_applied_, objf_info_, accuracy_info_,
                 trains_returned, substeps_run, num_perturbs>>

\* what one call of TrainInternal does to the trainer, given what the forward
\* pass computed and what the backward pass added to the delta model
TrainInternalResult(is_backstitch_step, output, gradient) ==
  LET po == ProcessOutputs(is_backstitch_step, eg, output, objf_info_,
                           accuracy_info_, nnet_.objective_type,
                           config_.print_interval, num_minibatches_processed_)
      accumulated == RAdd(delta_nnet_.params, gradient)
      sc == UpdateScales(config_, num_minibatches_processed_,
                         is_backstitch_step)
      up == UpdateNnetWithMaxChange(
              accumulated, config_.max_param_change, sc.max_change_scale,
              sc.scale_adding, nnet_, num_max_change_per_component_applied_,
              num_max_change_global_applied_)
  IN  [po |-> po, accumulated |-> accumulated, sc |-> sc, up |-> up,
       after |-> ScaleNnet(DeltaScaleAfter(up.success, sc.scale_delta_nnet),
                           accumulated)]

\* one call of TrainInternal, from Train
TrainInternal ==
  /\ pc \in {"backstitch_step", "normal_step", "conventional_step"}
  /\ \E output \in Outputs, gradient \in Gradients :
       \E r \in {TrainInternalResult(pc = "backstitch_step", output, gradient)} :
           /\ rng' = [rng EXCEPT !.draws = @ + 1]
           /\ objf_info_' = r.po.objf_info
           /\ accuracy_info_' = r.po.accuracy_info
           /\ IF r.po.failed
              THEN /\ pc' = "fatal"
                   /\ UNCHANGED <<nnet_, delta_nnet_, subs, events,
                                  num_max_change_per_component_applied_,
                                  num_max_change_global_applied_,
                                  substeps_run>>
              ELSE /\ nnet_' = [nnet_ EXCEPT !.params = r.up.params]
                   /\ delta_nnet_' = [delta_nnet_ EXCEPT !.params = r.after]
                   /\ num_max_change_per_component_applied_' =
                        r.up.per_component
                   /\ num_max_change_global_applied_' = r.up.global
                   /\ substeps_run' = substeps_run + 1
                   /\ events' = Append(events,
                        <<IF pc = "backstitch_step" THEN "backstitch"
                          ELSE "normal", rng.seed>>)
                   /\ subs' = Append(subs,
                        [is_backstitch_step |-> (pc = "backstitch_step"),
                         counter |-> num_minibatches_processed_,
                         rng |-> rng,
                         frozen |-> delta_nnet_.frozen,
                         delta_before |-> delta_nnet_.params,
                         gradient |-> gradient,
                         accumulated |-> r.accumulated,
                         scales |-> r.sc,
                         success |-> r.up.success,
                         clipped |->
                           \/ r.up.global # num_max_change_global_applied_
                           \/ r.up.per_component #
                                num_max_change_per_component_applied_,
                         nnet_before |-> nnet_.params,
                         nnet_after |-> r.up.params,
                         delta_after |-> r.after])
                   /\ pc' = CASE pc = "backstitch_step" -> "between"
                              [] OTHER -> "finish"
  /\ UNCHANGED <<config_, num_minibatches_processed_, srand_seed_, eg,
                 prev_subs, trains_returned, call_counter, returned,
                 num_perturbs>>

\* Train between its two calls of TrainInternal
TrainBetween ==
  /\ pc = "between"
  /\ delta_nnet_' = FreezeNaturalGradient(FALSE, delta_nnet_)
  /\ rng' = Reseed(srand_seed_, num_minibatches_processed_)
  /\ events' = events \o << <<"unfreeze", 0>>, <<"srand", rng'.seed>> >>
  /\ pc' = "normal_step"
  /\ UNCHANGED <<config_, nnet_, num_minibatches_processed_, srand_seed_,
                 num_max_change_per_component_applied_,
                 num_max_change_global_applied_, objf_info_, accuracy_info_,
                 eg, subs, prev_subs, trains_returned, call_counter,
                 substeps_run, returned, num_perturbs>>

\* Train after its last call of TrainInternal
TrainEnd ==
  /\ pc = "finish"
  /\ num_minibatches_processed_' =
       MinibatchesAfterTrain(num_minibatches_processed_, Len(subs))
  /\ trains_returned' = trains_returned + 1
  /\ pc' = "idle"
  /\ UNCHANGED <<config_, nnet_, delta_nnet_, srand_seed_, rng,
                 num_max_change_per_component_applied_,
                 num_max_change_global_applied_, objf_info_, accuracy_info_,
                 eg, events, subs, prev_subs, call_counter, substeps_run,
                 returned, num_perturbs>>

\* whether PrintTotalStats returns true for some record of a map; the loop
\* stops calling it once one did, which does not change the disjunction
AnyPrintTotalStats(map) ==
  \E name \in DOMAIN map : ObjectiveFunctionInfo_PrintTotalStats(map[name]).ans

\* the percentage PrintMaxChangeStats logs for a clip counter
MaxChangePercentage(counter, config, num_minibatches) ==
  RDiv(RDiv(RMul(Rat(100, 1), Rat(counter, 1)), Rat(num_minibatches, 1)),
       IF RGreater(config.backstitch_training_scale, Zero)
       THEN Rat(2, 1) ELSE One)

\* NnetTrainer::PrintMaxChangeStats: the lines it logs, one for each
\* updatable component whose clip counter is positive and one for the global
\* clip counter when it is positive
PrintMaxChangeStats(config, num_minibatches, per_component, global) ==
  [components |->
     [i \in { j \in 1..Len(per_component) : per_component[j] > 0 } |->
        MaxChangePercentage(per_component[i], config, num_minibatches)],
   global |->
     IF global > 0
     THEN <<MaxChangePercentage(global, config, num_minibatches)>>
     ELSE <<>>]

\* the value NnetTrainer::PrintTotalStats returns: ans after the loop over
\* objf_info_, set to false again, then after the loop over accuracy_info_
NnetTrainer_PrintTotalStats(objf_info, accuracy_info) ==
  LET after_objf == FALSE \/ AnyPrintTotalStats(objf_info)
      reset == FALSE
  IN  reset \/ AnyPrintTotalStats(accuracy_info)

\* NnetTrainer::PrintTotalStats, between two Train calls
PrintTotalStats ==
  /\ pc = "idle"
  /\ returned' =
       [op |-> "PrintTotalStats",
        ans |-> NnetTrainer_PrintTotalStats(objf_info_, accuracy_info_),
        max_change |->
          PrintMaxChangeStats(config_, num_minibatches_processed_,
                              num_max_change_per_component_applied_,
                              num_max_change_global_applied_)]
  /\ UNCHANGED <<config_, nnet_, delta_nnet_, num_minibatches_processed_,
                 srand_seed_, rng, num_max_change_per_component_applied_,
                 num_max_change_global_applied_, objf_info_, accuracy_info_,
                 pc, eg, events, subs, prev_subs, trains_returned,
                 call_counter, substeps_run, num_perturbs>>

\* the features of the input stream after the perturbation: the derivative
\* scaled to norm one unless it is zero, times -perturb_epsilon, added
PerturbedFeatures(features, input_deriv, perturb_epsilon) ==
  LET deriv_norm_sqr == RMul(input_deriv, input_deriv)
      scaled == IF deriv_norm_sqr # Zero
                THEN RDiv(input_deriv, RAbs(input_deriv))
                ELSE input_deriv
  IN  [type |-> "kFullMatrix",
       mat |-> MatAddMat(CopyFromGeneralMat(features), RNeg(perturb_epsilon),
                         << <<scaled>> >>)]

\* the example PerturbInputWithInputDeriv leaves in eg_perturbed, a copy of
\* the example on entry: the features of the input stream are replaced
PerturbExample(example, input_deriv, perturb_epsilon) ==
  [io |->
     [i \in 1..Len(example.io) |->
        IF GetNodeIndex(example.io[i].name) = 0
        THEN [example.io[i] EXCEPT !.features =
                PerturbedFeatures(@, input_deriv, perturb_epsilon)]
        ELSE example.io[i]]]

\* NnetTrainer::PerturbInputWithInputDeriv, between two Train calls: the
\* gradients go to a temporary copy of the model, ProcessOutputs is called on
\* the trainer itself
PerturbInputWithInputDeriv ==
  /\ pc = "idle"
  /\ num_perturbs < MaxPerturbs
  /\ num_perturbs' = num_perturbs + 1
  /\ \E e \in Examples, output \in Outputs, input_deriv \in InputDerivs :
       \E po \in {ProcessOutputs(FALSE, e, output, objf_info_, accuracy_info_,
                                 nnet_.objective_type, config_.print_interval,
                                 num_minibatches_processed_)} :
           /\ objf_info_' = po.objf_info
           /\ accuracy_info_' = po.accuracy_info
           /\ rng' = [rng EXCEPT !.draws = @ + 1]
           /\ IF po.failed
              THEN /\ pc' = "fatal"
                   /\ returned' = NothingReturned
              ELSE /\ pc' = "idle"
                   /\ returned' =
                        [op |-> "PerturbInputWithInputDeriv",
                         eg_perturbed |->
                           PerturbExample(e, input_deriv,
                                          config_.perturb_epsilon)]
  /\ UNCHANGED <<config_, nnet_, delta_nnet_, num_minibatches_processed_,
                 srand_seed_, num_max_change_per_component_applied_,
                 num_max_change_global_applied_, eg, events, subs, prev_subs,
                 trains_returned, call_counter, substeps_run>>

(***************************************************************************)
(* One statistics record driven directly                                   *)
(***************************************************************************)
VARIABLES st_info, st_K, st_fed, st_log, st_pc, st_prev, st_printed

st_vars == <<st_info, st_K, st_fed, st_log, st_pc, st_prev, st_printed>>

\* the largest number of UpdateStats calls made on the record
MaxFeed == 4

\* the largest minibatches_per_phase
MaxK == 3

\* the (weight, objf, aux_objf) arguments tried
StatInputs ==
  { <<Rat(1, 1), Rat(-3, 2), Zero>>, <<Rat(2, 1), Rat(-1, 1), Rat(1, 2)>> }

StatsInit ==
  /\ st_info = NewObjectiveFunctionInfo
  /\ st_K \in 1..MaxK
  /\ st_fed = <<>>
  /\ st_log = <<>>
  /\ st_pc = "ok"
  /\ st_prev = [info |-> NewObjectiveFunctionInfo, log |-> <<>>]
  /\ st_printed = NothingReturned

\* a call of UpdateStats on the record, with any minibatch counter
StatsUpdate ==
  /\ st_pc = "ok"
  /\ Len(st_fed) < MaxFeed
  /\ \E c \in 0..MaxFeed, x \in StatInputs :
       LET r == UpdateStats(st_info, st_K, c, x[1], x[2], x[3])
       IN  /\ st_fed' = Append(st_fed, [counter |-> c, weight |-> x[1],
                                         objf |-> x[2], aux |-> x[3]])
           /\ st_prev' = [info |-> st_info, log |-> st_log]
           /\ st_info' = r.info
           /\ st_log' = st_log \o r.log
           /\ st_pc' = IF r.failed THEN "fatal" ELSE "ok"
  /\ st_printed' = NothingReturned
  /\ UNCHANGED st_K

\* a call of ObjectiveFunctionInfo::PrintTotalStats on the record
StatsPrintTotal ==
  /\ st_pc = "ok"
  /\ st_printed = NothingReturned
  /\ \E r \in {ObjectiveFunctionInfo_PrintTotalStats(st_info)} :
       /\ st_info' = r.info
       /\ st_printed' = [op |-> "PrintTotalStats", before |-> st_info,
                         objf |-> r.objf, aux_objf |-> r.aux_objf,
                         ans |-> r.ans]
  /\ UNCHANGED <<st_K, st_fed, st_log, st_pc, st_prev>>

(***************************************************************************)
(* ComputeObjectiveFunction called directly                                *)
(***************************************************************************)
VARIABLES ob_in, ob_out, ob_pc

ob_vars == <<ob_in, ob_out, ob_pc>>

\* the largest number of rows and of columns of the matrices tried
MaxRows == 2

MaxCols == 3

\* the values the supervision matrices are filled with, in turn: zeros and
\* ones, and a set with a value half way
SupervisionValues == { <<Zero, One>>, <<Zero, Rat(1, 2), One>> }

\* the values the output matrices are filled with, in turn
OutputValues == { <<Rat(-2, 1), Rat(-1, 1), Rat(-1, 2)>> }

\* the matrix of this size filled row by row with the values in turn, from
\* the value at place first
FilledMatrix(rows, cols, values, first) ==
  [r \in 1..rows |->
     [c \in 1..cols |->
        values[(((r - 1) * cols + (c - 1) + first) % Len(values)) + 1]]]

\* the supervision matrices tried, before encoding
Supervisions ==
  { FilledMatrix(rows, cols, values, first) :
      rows \in 1..MaxRows, cols \in 1..MaxCols,
      values \in SupervisionValues, first \in 0..1 }

Encodings == {"kSparseMatrix", "kFullMatrix", "kCompressedMatrix"}

\* the objective types tried: the two of the enumeration and a value outside
ObjectiveTypes == {"kLinear", "kQuadratic", "kUnknown"}

\* the outputs tried for a supervision: matrices of as many rows and any
\* number of columns, and the very matrix the supervision holds
OutputsFor(supervision) ==
  { FilledMatrix(NumRows(supervision), cols, values, 0) :
      cols \in 1..MaxCols, values \in OutputValues }
  \cup { CopyFromGeneralMat(supervision) }

\* the out-parameter of the caller before the function writes it
Unwritten == <<>>

ObjfInit ==
  /\ \E m \in Supervisions, type \in Encodings :
       \E supervision \in {GeneralMatrixOf(m, type)} :
         \E output \in OutputsFor(supervision) :
           \E objective_type \in ObjectiveTypes, supply_deriv \in BOOLEAN :
             ob_in = [logical |-> m, supervision |-> supervision,
                      output |-> output, objective_type |-> objective_type,
                      supply_deriv |-> supply_deriv]
  /\ ob_out = [failed |-> FALSE, tot_weight |-> Unwritten,
               tot_objf |-> Unwritten, deriv |-> NoDeriv]
  /\ ob_pc = "ready"

\* one call of ComputeObjectiveFunction: on an error the out-parameters stay
\* as they were
ObjfCompute ==
  /\ ob_pc = "ready"
  /\ \E r \in {ComputeObjectiveFunction(ob_in.supervision,
                     ob_in.objective_type, ob_in.output, ob_in.supply_deriv)} :
       /\ ob_out' = IF r.failed
                    THEN [ob_out EXCEPT !.failed = TRUE, !.deriv = r.deriv]
                    ELSE r
       /\ ob_pc' = IF r.failed THEN "fatal" ELSE "done"
  /\ UNCHANGED ob_in

(***************************************************************************)
(* Specifications                                                          *)
(***************************************************************************)
vars == <<tr_vars, st_vars, ob_vars>>

\* the objective call of the third specification, untouched by the others
ObjfIdle ==
  /\ ob_in = [logical |-> <<>>, supervision |-> FullMatrixOf(<<>>),
              output |-> <<>>, objective_type |-> "kLinear",
              supply_deriv |-> FALSE]
  /\ ob_out = [failed |-> FALSE, tot_weight |-> Unwritten,
               tot_objf |-> Unwritten, deriv |-> NoDeriv]
  /\ ob_pc = "none"

\* the record of the second specification, untouched by the trainer
StatsIdle ==
  /\ st_info = NewObjectiveFunctionInfo
  /\ st_K = 1
  /\ st_fed = <<>>
  /\ st_log = <<>>
  /\ st_pc = "ok"
  /\ st_prev = [info |-> NewObjectiveFunctionInfo, log |-> <<>>]
  /\ st_printed = NothingReturned

\* the trainer of the first specification, untouched by the second
TrainerIdle ==
  /\ config_ = [momentum |-> Zero, max_param_change |-> Rat(2, 1),
                backstitch_training_scale |-> Zero,
                backstitch_training_interval |-> 1, print_interval |-> 1,
                perturb_epsilon |-> Rat(1, 4)]
  /\ nnet_ = [params |-> One, objective_type |-> "kLinear",
              max_change |-> Rat(5, 2)]
  /\ delta_nnet_ = [params |-> NaN, frozen |-> FALSE]
  /\ num_minibatches_processed_ = 0
  /\ srand_seed_ = 0
  /\ rng = [seed |-> 1, draws |-> 0]
  /\ num_max_change_per_component_applied_ = <<>>
  /\ num_max_change_global_applied_ = 0
  /\ objf_info_ = <<>>
  /\ accuracy_info_ = <<>>
  /\ pc = "none"
  /\ eg = NoExample
  /\ events = <<>>
  /\ subs = <<>>
  /\ prev_subs = <<>>
  /\ trains_returned = 0
  /\ call_counter = 0
  /\ substeps_run = 0
  /\ returned = NothingReturned
  /\ num_perturbs = 0

Init == TrainerInit /\ StatsIdle /\ ObjfIdle

Next ==
  \/ Construct /\ UNCHANGED <<st_vars, ob_vars>>
  \/ TrainBegin /\ UNCHANGED <<st_vars, ob_vars>>
  \/ TrainInternal /\ UNCHANGED <<st_vars, ob_vars>>
  \/ TrainBetween /\ UNCHANGED <<st_vars, ob_vars>>
  \/ TrainEnd /\ UNCHANGED <<st_vars, ob_vars>>

\* the trainer, under any sequence of Train calls
Spec == Init /\ [][Next]_vars

InitAll == TrainerInit /\ StatsIdle /\ ObjfIdle

NextAll ==
  \/ Construct /\ UNCHANGED <<st_vars, ob_vars>>
  \/ TrainBegin /\ UNCHANGED <<st_vars, ob_vars>>
  \/ TrainInternal /\ UNCHANGED <<st_vars, ob_vars>>
  \/ TrainBetween /\ UNCHANGED <<st_vars, ob_vars>>
  \/ TrainEnd /\ UNCHANGED <<st_vars, ob_vars>>
  \/ PrintTotalStats /\ UNCHANGED <<st_vars, ob_vars>>
  \/ PerturbInputWithInputDeriv /\ UNCHANGED <<st_vars, ob_vars>>

\* the trainer, under any sequence of calls of Train, PrintTotalStats and
\* PerturbInputWithInputDeriv
SpecAll == InitAll /\ [][NextAll]_vars

InitStats == StatsInit /\ TrainerIdle /\ ObjfIdle

NextStats ==
  \/ StatsUpdate /\ UNCHANGED <<tr_vars, ob_vars>>
  \/ StatsPrintTotal /\ UNCHANGED <<tr_vars, ob_vars>>

\* one statistics record, under any sequence of UpdateStats calls
SpecStats == InitStats /\ [][NextStats]_vars

InitObjf == ObjfInit /\ TrainerIdle /\ StatsIdle

NextObjf == ObjfCompute /\ UNCHANGED <<tr_vars, st_vars>>

\* one call of ComputeObjectiveFunction, on any supervision, encoding,
\* output and objective type
SpecObjf == InitObjf /\ [][NextObjf]_vars

(***************************************************************************)
(* Properties of the trainer                                               *)
(***************************************************************************)
\* the constructor ran to its end
Constructed == Len(num_max_change_per_component_applied_) = 1

\* a Train call is past its first line and has not returned
InTrain ==
  pc \in {"backstitch_step", "between", "normal_step", "conventional_step",
          "finish"}

\* the last Train call made has run all its sub-steps
SubStepsDone == pc = "finish" \/ (pc = "idle" /\ trains_returned > 0)

\* the minibatch with this counter is a backstitch boundary
Boundary(counter) ==
  /\ RGreater(config_.backstitch_training_scale, Zero)
  /\ counter % config_.backstitch_training_interval = 0

IsPrefix(a, b) == Len(a) <= Len(b) /\ a = SubSeq(b, 1, Len(a))

Tag(sub) == IF sub.is_backstitch_step THEN "backstitch" ELSE "normal"

Tags == [i \in 1..Len(subs) |-> Tag(subs[i])]

\* C1 as stated: a trainer whose configuration has momentum > 0 and
\* backstitch_training_scale > 0 is never constructed.
C1_ConstructionRejectsMomentumWithBackstitch ==
  (/\ RGreater(config_.momentum, Zero)
   /\ RGreater(config_.backstitch_training_scale, Zero)) => ~Constructed

\* the sub-steps Train is to run for a minibatch counter
ExpectedTags(counter) ==
  IF Boundary(counter) THEN <<"backstitch", "normal">> ELSE <<"normal">>

\* C2: a Train call that returns has run exactly two sub-steps, tagged
\* backstitch then normal, when it was made on a backstitch boundary (scale > 0
\* and counter mod interval = 0), and exactly one, tagged normal, otherwise;
\* at every moment of a call the sub-steps run so far are a prefix of these.
C2_SubStepsPerTrain ==
  Constructed =>
    /\ IsPrefix(Tags, ExpectedTags(call_counter))
    /\ SubStepsDone => Tags = ExpectedTags(call_counter)

\* C2 witness: with an interval of 2 a two-sub-step call at counter 2 has
\* returned after a one-sub-step call at counter 1
C2_Witness ==
  /\ pc = "idle"
  /\ call_counter = 2
  /\ config_.backstitch_training_interval = 2
  /\ Len(subs) = 2
  /\ Len(prev_subs) = 1

\* C3: each Train call that returns adds exactly 1 to the minibatch counter,
\* after its last sub-step: the counter is the number of Train calls that
\* have returned, and every sub-step of a call saw the counter the call began
\* with.
C3_CounterCountsTrainCalls ==
  /\ num_minibatches_processed_ = trains_returned
  /\ InTrain => call_counter = num_minibatches_processed_
  /\ \A i \in 1..Len(subs) : subs[i].counter = call_counter

\* C3 witness: a two-sub-step call and a one-sub-step call have both returned
C3_Witness ==
  /\ pc = "idle"
  /\ trains_returned = 2
  /\ Len(prev_subs) = 2
  /\ Len(subs) = 1

\* the events of a Train call on a backstitch boundary
BackstitchEvents(seed) ==
  << <<"freeze", 0>>, <<"srand", seed>>, <<"backstitch", seed>>,
     <<"unfreeze", 0>>, <<"srand", seed>>, <<"normal", seed>> >>

\* C4: on a backstitch boundary the events of a Train call are, in order:
\* freeze, reseed to base_seed + counter, backstitch sub-step, unfreeze, reseed
\* to the same value, normal sub-step.  Natural gradient is frozen during the
\* backstitch sub-step and during no other sub-step, both sub-steps of the
\* pair start from the freshly set seed base_seed + counter, and natural
\* gradient is not frozen when Train has returned.
C4_BackstitchEventOrder ==
  Constructed =>
    /\ (Boundary(call_counter) /\ (InTrain \/ SubStepsDone)) =>
         /\ IsPrefix(events, BackstitchEvents(srand_seed_ + call_counter))
         /\ SubStepsDone =>
              events = BackstitchEvents(srand_seed_ + call_counter)
         /\ \A i \in 1..Len(subs) :
              subs[i].rng = [seed |-> srand_seed_ + call_counter, draws |-> 0]
    /\ \A i \in 1..Len(subs) : subs[i].frozen = subs[i].is_backstitch_step
    /\ \A i \in 1..Len(prev_subs) :
         prev_subs[i].frozen = prev_subs[i].is_backstitch_step
    /\ pc = "idle" => ~delta_nnet_.frozen

\* C4 witness: a backstitch pair at a counter above 0 has returned
C4_Witness ==
  /\ pc = "idle"
  /\ call_counter > 0
  /\ Len(subs) = 2
  /\ Len(events) = 6

\* C5 as stated: every sub-step, conventional ones included, starts from the
\* pseudo-random source freshly set to base_seed + minibatch counter.
C5_EverySubStepReseeded ==
  \A i \in 1..Len(subs) :
    subs[i].rng = [seed |-> srand_seed_ + subs[i].counter, draws |-> 0]

\* C5 as amended: each of the two sub-steps of a backstitch pair starts from
\* the pseudo-random source freshly set to base_seed + minibatch counter; a
\* conventional sub-step does not reset the source: it starts from the state
\* the sub-step before it left.
C5_BackstitchPairReseeded ==
  /\ \A i \in 1..Len(subs) :
       Boundary(subs[i].counter) =>
         subs[i].rng = [seed |-> srand_seed_ + subs[i].counter, draws |-> 0]
  /\ (Len(subs) = 1 /\ ~Boundary(subs[1].counter) /\ Len(prev_subs) > 0) =>
       subs[1].rng =
         [prev_subs[Len(prev_subs)].rng EXCEPT !.draws = @ + 1]

\* C5 witness: both sub-steps of a pair at a counter above 0 have run
C5_Witness ==
  /\ Len(subs) = 2
  /\ subs[2].counter > 0
  /\ Boundary(subs[2].counter)
  /\ subs[1].rng = subs[2].rng

\* the scales of the table for a sub-step
TableScales(counter, is_backstitch) ==
  IF ~Boundary(counter)
  THEN <<One, RSub(One, config_.momentum), config_.momentum>>
  ELSE IF is_backstitch
  THEN <<config_.backstitch_training_scale,
         RNeg(config_.backstitch_training_scale), Zero>>
  ELSE <<RAdd(One, config_.backstitch_training_scale),
         RAdd(One, config_.backstitch_training_scale), Zero>>

ScalesOf(sub) ==
  <<sub.scales.max_change_scale, sub.scales.scale_adding,
    sub.scales.scale_delta_nnet>>

\* C6: the (max_change_scale, scale_adding, scale_delta_after) of a sub-step
\* is (1, 1 - momentum, momentum) off a backstitch boundary, (scale, -scale, 0)
\* for the backstitch sub-step of a boundary and (1 + scale, 1 + scale, 0) for
\* its normal sub-step; and the sub-step's own boundary test agrees with the
\* branch Train took: a sub-step tagged backstitch, and the second sub-step
\* of a call, use the boundary rows, a lone normal sub-step the first row.
C6_UpdateScalesTable ==
  /\ \A i \in 1..Len(subs) :
       /\ ScalesOf(subs[i]) =
            TableScales(subs[i].counter, subs[i].is_backstitch_step)
       /\ (subs[i].is_backstitch_step \/ i = 2) =>
            subs[i].scales.scale_delta_nnet = Zero
            /\ subs[i].scales.max_change_scale =
                 RAdd(IF i = 2 THEN One ELSE Zero,
                      config_.backstitch_training_scale)
  /\ (SubStepsDone /\ Len(subs) = 1) =>
       ScalesOf(subs[1]) =
         <<One, RSub(One, config_.momentum), config_.momentum>>

\* C6 witness: a backstitch pair has run after a conventional step under the
\* same backstitch configuration
C6_Witness ==
  /\ Len(subs) = 2
  /\ Len(prev_subs) = 1
  /\ subs[1].scales.scale_adding = Rat(-1, 2)
  /\ subs[2].scales.scale_adding = Rat(3, 2)
  /\ prev_subs[1].scales.scale_adding = One

\* C7: after the update of a sub-step the delta model is its accumulated
\* delta times scale_delta_after when the update succeeded and all zero when
\* it failed, and a failed update does not abort training.
C7_DeltaAfterUpdate ==
  /\ \A i \in 1..Len(subs) :
       subs[i].delta_after =
         IF subs[i].success
         THEN RMul(subs[i].scales.scale_delta_nnet, subs[i].accumulated)
         ELSE Zero
  /\ (Len(subs) > 0 /\ pc # "backstitch_step" /\ pc # "normal_step"
      /\ pc # "conventional_step") =>
       delta_nnet_.params = subs[Len(subs)].delta_after
  /\ (\E i \in 1..Len(subs) : ~subs[i].success) => pc # "fatal"

\* C7 witness: with momentum, an update failed on a delta model that carried
\* momentum over from the step before, and the next Train call has begun
C7_Witness ==
  /\ Len(prev_subs) = 1
  /\ prev_subs[1].delta_before # Zero
  /\ ~prev_subs[1].success
  /\ prev_subs[1].delta_after = Zero
  /\ pc = "conventional_step"

\* what a sub-step added to the model
Applied(sub) == RSub(sub.nnet_after, sub.nnet_before)

\* C8: with momentum m and backstitch disabled, when two consecutive Train
\* calls accumulate the same gradient D, the first from a zero delta model and
\* neither clipped, the first adds D(1-m) to the model, the delta model carried
\* into the second is mD, and the second adds D(1-m) + Dm(1-m).
C8_MomentumRecurrence ==
  (/\ SubStepsDone
   /\ config_.backstitch_training_scale = Zero
   /\ Len(prev_subs) = 1 /\ Len(subs) = 1
   /\ prev_subs[1].delta_before = Zero
   /\ IsFinite(subs[1].gradient)
   /\ prev_subs[1].gradient = subs[1].gradient
   /\ prev_subs[1].success /\ subs[1].success
   /\ ~prev_subs[1].clipped /\ ~subs[1].clipped) =>
    LET m == config_.momentum
        D == subs[1].gradient
        first == RMul(D, RSub(One, m))
    IN  /\ Applied(prev_subs[1]) = first
        /\ subs[1].delta_before = RMul(m, D)
        /\ Applied(subs[1]) = RAdd(first, RMul(RMul(D, m), RSub(One, m)))

\* C8 witness: two such calls with momentum 1/2 and gradient 1: the second
\* adds 3/4
C8_Witness ==
  /\ pc = "idle"
  /\ config_.momentum = Rat(1, 2)
  /\ Len(prev_subs) = 1 /\ Len(subs) = 1
  /\ prev_subs[1].delta_before = Zero
  /\ prev_subs[1].gradient = One /\ subs[1].gradient = One
  /\ ~prev_subs[1].clipped /\ ~subs[1].clipped
  /\ Applied(subs[1]) = Rat(3, 4)

(***************************************************************************)
(* Properties of the statistics record                                     *)
(***************************************************************************)
\* the record was fed the minibatch counters 0, 1, ..., N-1 in this order
FedInOrder == \A i \in 1..Len(st_fed) : st_fed[i].counter = i - 1

\* the i-th flush (counting from 0) reports the range [i*K, i*K + K - 1]
FlushRangesRight ==
  \A i \in 1..Len(st_log) :
    /\ st_log[i].start_minibatch = (i - 1) * st_K
    /\ st_log[i].end_minibatch = (i - 1) * st_K + st_K - 1

\* C9 as stated: N calls with the counters 0..N-1 and minibatchesPerPhase = K
\* cause exactly floor(N/K) phase flushes, the i-th reporting [i*K, i*K+K-1].
C9_FlushesFloorNOverK ==
  FedInOrder =>
    /\ Len(st_log) = Len(st_fed) \div st_K
    /\ FlushRangesRight

\* C9 as amended: N calls with the counters 0..N-1 cause exactly
\* floor((N-1)/K) phase flushes for N >= 1 and none for N = 0 (a phase is
\* flushed by the first minibatch of the next phase, so the last phase fed is
\* not flushed), the i-th flush reporting [i*K, i*K + K - 1].
C9_FlushesFloorNMinusOneOverK ==
  FedInOrder =>
    /\ st_pc = "ok"
    /\ Len(st_log) = IF Len(st_fed) = 0 THEN 0 ELSE (Len(st_fed) - 1) \div st_K
    /\ FlushRangesRight

\* C9 witness: four minibatches fed in order with two per phase: one flush
C9_Witness ==
  /\ FedInOrder
  /\ Len(st_fed) = 4
  /\ st_K = 2
  /\ Len(st_log) = 1
  /\ st_log[1].end_minibatch = 1

\* the last call made on the record, and the phase of its counter
LastFed == st_fed[Len(st_fed)]

LastPhase == LastFed.counter \div st_K

\* C10: a call whose phase (counter div minibatchesPerPhase) is smaller than
\* the stored phase fails fatally, before any flush and with every phase and
\* lifetime accumulator as it was; a call whose phase equals the stored phase
\* logs no flush and adds to the phase accumulators without resetting them.
C10_BackwardPhaseFailsFirst ==
  Len(st_fed) > 0 =>
    /\ LastPhase < st_prev.info.current_phase =>
          /\ st_pc = "fatal"
          /\ st_log = st_prev.log
          /\ st_info = st_prev.info
    /\ LastPhase = st_prev.info.current_phase =>
          /\ st_pc = "ok"
          /\ st_log = st_prev.log
          /\ st_info.current_phase = st_prev.info.current_phase
          /\ st_info.tot_weight_this_phase =
               RAdd(st_prev.info.tot_weight_this_phase, LastFed.weight)
          /\ st_info.tot_objf_this_phase =
               RAdd(st_prev.info.tot_objf_this_phase, LastFed.objf)
          /\ st_info.tot_aux_objf_this_phase =
               RAdd(st_prev.info.tot_aux_objf_this_phase, LastFed.aux)

\* C10 witness: a call with a smaller phase was made on a record that already
\* held statistics of a later phase
C10_Witness ==
  /\ Len(st_fed) > 1
  /\ LastPhase < st_prev.info.current_phase
  /\ st_prev.info.tot_weight_this_phase # Zero
  /\ st_pc = "fatal"

(***************************************************************************)
(* Properties of the trainer's statistics records                          *)
(***************************************************************************)
\* the statistics records the trainer keeps, of both maps
TrainerRecords ==
  { objf_info_[k] : k \in DOMAIN objf_info_ } \cup
  { accuracy_info_[k] : k \in DOMAIN accuracy_info_ }

\* C11: under Train calls, with print_interval >= 1 and any backstitch scale
\* and interval, no statistics record of the trainer (objective or accuracy,
\* "_backstitch" ones included) stores a phase beyond the phase of the
\* trainer's minibatch counter; as an update stores the phase of the counter
\* and the counter never goes down, the stored phase of a record never
\* decreases and the assertion of UpdateStats never fails in the trainer
C11_StoredPhaseNeverAhead ==
  Constructed =>
    \A info \in TrainerRecords :
      /\ info.current_phase <=
           num_minibatches_processed_ \div config_.print_interval
      /\ info.current_phase >= 0

\* a backstitch record and an accuracy record have both moved to a later phase
C11_Witness ==
  /\ "output_backstitch" \in DOMAIN objf_info_
  /\ objf_info_["output_backstitch"].current_phase >= 1
  /\ "output_backstitch" \in DOMAIN accuracy_info_
  /\ accuracy_info_["output_backstitch"].current_phase >= 1
  /\ "output" \in DOMAIN accuracy_info_
  /\ accuracy_info_["output"].current_phase >= 1
  /\ config_.print_interval = 2

(***************************************************************************)
(* Properties of one statistics record: totals and PrintTotalStats         *)
(***************************************************************************)
\* the sum of one argument over the calls from the i-th on
RECURSIVE SumFed(_, _)
SumFed(i, field) ==
  IF i > Len(st_fed) THEN Zero
  ELSE RAdd(st_fed[i][field], SumFed(i + 1, field))

\* the phase the record held before the i-th call, when all calls succeeded
PhaseBeforeCall(i) ==
  IF i = 1 THEN 0 ELSE st_fed[i - 1].counter \div st_K

\* the calls that changed the phase of the record
PhaseChanges ==
  { i \in 1..Len(st_fed) : st_fed[i].counter \div st_K # PhaseBeforeCall(i) }

\* the first call of the current phase
PhaseStart ==
  IF PhaseChanges = {} THEN 1
  ELSE CHOOSE i \in PhaseChanges : \A j \in PhaseChanges : j <= i

\* C12: after any sequence of successful UpdateStats calls the lifetime
\* totals are the sums of the arguments over all the calls, and the phase
\* totals are the sums over the calls from the most recent phase change on,
\* the call that changed the phase included
C12_TotalsAreSums ==
  st_pc = "ok" =>
    /\ st_info.tot_weight = SumFed(1, "weight")
    /\ st_info.tot_objf = SumFed(1, "objf")
    /\ st_info.tot_aux_objf = SumFed(1, "aux")
    /\ st_info.tot_weight_this_phase = SumFed(PhaseStart, "weight")
    /\ st_info.tot_objf_this_phase = SumFed(PhaseStart, "objf")
    /\ st_info.tot_aux_objf_this_phase = SumFed(PhaseStart, "aux")

\* two calls in the first phase, then two in a later one: the phase totals
\* have been reset and the lifetime totals have not
C12_Witness ==
  /\ st_pc = "ok"
  /\ Len(st_fed) = 4
  /\ PhaseStart = 3
  /\ \A i \in 1..4 : st_fed[i].weight # Zero
  /\ st_info.tot_weight # st_info.tot_weight_this_phase
  /\ st_info.tot_aux_objf_this_phase # Zero

\* C14: ObjectiveFunctionInfo::PrintTotalStats returns false when the lifetime
\* weight of the record is exactly zero and true otherwise, whatever
\* UpdateStats calls the record received (none included), and leaves the
\* record as it was
C14_PrintTotalStatsTellsZeroWeight ==
  st_printed.op = "PrintTotalStats" =>
    /\ st_printed.ans = (SumFed(1, "weight") # Zero)
    /\ st_printed.ans = (st_printed.before.tot_weight # Zero)
    /\ st_info = st_printed.before

\* PrintTotalStats has returned false for a record that never received a
\* call of UpdateStats
C14_Witness ==
  /\ st_printed.op = "PrintTotalStats"
  /\ ~st_printed.ans
  /\ st_fed = <<>>
  /\ st_printed.objf = NaN

(***************************************************************************)
(* Properties of PrintTotalStats and PerturbInputWithInputDeriv            *)
(***************************************************************************)
\* the percentage of the update sub-steps run so far that a clip counter makes
PercentageOfSubSteps(counter) ==
  RDiv(Rat(100 * counter, 1), Rat(substeps_run, 1))

\* C13: PrintMaxChangeStats reports, for each positive per-component clip
\* counter and for a positive global clip counter, 100 * counter / (number of
\* update sub-steps run so far), for every backstitch scale and interval, and
\* never more than 100
C13_PercentageOfSubStepsReported ==
  returned.op = "PrintTotalStats" =>
    /\ \A i \in 1..Len(num_max_change_per_component_applied_) :
         num_max_change_per_component_applied_[i] > 0 =>
           /\ i \in DOMAIN returned.max_change.components
           /\ returned.max_change.components[i] =
                PercentageOfSubSteps(num_max_change_per_component_applied_[i])
           /\ ~RGreater(returned.max_change.components[i], Rat(100, 1))
    /\ num_max_change_global_applied_ > 0 =>
         /\ returned.max_change.global =
              <<PercentageOfSubSteps(num_max_change_global_applied_)>>
         /\ ~RGreater(returned.max_change.global[1], Rat(100, 1))

\* C19: NnetTrainer::PrintTotalStats returns true whenever some record of the
\* trainer, objective or accuracy, has a lifetime weight that is not zero
C19_PrintTotalStatsTrueWhenAnyWeight ==
  returned.op = "PrintTotalStats" =>
    ((\E info \in TrainerRecords : info.tot_weight # Zero) => returned.ans)

\* C20: a call of PerturbInputWithInputDeriv that returns leaves the minibatch
\* counter, the delta model, the clip counters, the model parameters and the
\* statistics records as they were
C20_PerturbLeavesTrainingState ==
  [][(num_perturbs' # num_perturbs /\ pc' = "idle") =>
       UNCHANGED <<num_minibatches_processed_, delta_nnet_,
                   num_max_change_per_component_applied_,
                   num_max_change_global_applied_, nnet_, objf_info_,
                   accuracy_info_>>]_vars

(***************************************************************************)
(* Properties of ComputeObjectiveFunction                                  *)
(***************************************************************************)
\* the sum of a(r, c) * b(r, c) over the elements from the k-th on, the
\* elements counted row by row from 0
RECURSIVE DotFrom(_, _, _)
DotFrom(a, b, k) ==
  IF Len(a) = 0 \/ k >= Len(a) * Len(a[1]) THEN Zero
  ELSE LET r == (k \div Len(a[1])) + 1
           c == (k % Len(a[1])) + 1
       IN  RAdd(RMul(a[r][c], b[r][c]), DotFrom(a, b, k + 1))

Dot(a, b) == DotFrom(a, b, 0)

SumEntries(m) ==
  Dot(m, [r \in 1..Len(m) |-> [c \in 1..Len(m[r]) |-> One]])

Difference(a, b) ==
  [r \in 1..Len(a) |-> [c \in 1..Len(a[r]) |-> RSub(a[r][c], b[r][c])]]

ObjfCalled == ob_pc \in {"done", "fatal"}

ColumnsDiffer == Len(ob_in.output[1]) # Len(ob_in.logical[1])

\* the dense matrix the supervision object holds: the matrix that was encoded,
\* but for a compressed object, which holds what its codes decode to
HeldMatrix ==
  IF ob_in.supervision.type = "kCompressedMatrix"
  THEN GetMatrix(ob_in.supervision)
  ELSE ob_in.logical

\* C15: ComputeObjectiveFunction raises an error when the supervision and the
\* output differ in their number of columns, for every objective type and
\* supervision encoding, and when the objective type is neither kLinear nor
\* kQuadratic; it then has written no total and given no derivative
C15_MismatchAndUnknownTypeAreFatal ==
  (ObjfCalled /\ (ColumnsDiffer \/
                  ob_in.objective_type \notin {"kLinear", "kQuadratic"})) =>
    /\ ob_pc = "fatal"
    /\ ob_out.failed
    /\ ob_out.tot_weight = Unwritten
    /\ ob_out.tot_objf = Unwritten
    /\ ~ob_out.deriv.given

\* a compressed supervision with a column more than the output, the
\* derivative asked for, has been refused under kQuadratic
C15_Witness ==
  /\ ob_pc = "fatal"
  /\ ColumnsDiffer
  /\ ob_in.supervision.type = "kCompressedMatrix"
  /\ ob_in.objective_type = "kQuadratic"
  /\ ob_in.supply_deriv
  /\ Len(ob_in.logical) = 2

TwoValued(m) ==
  \A r \in 1..Len(m), c \in 1..Len(m[1]) :
    m[r][c] \in {MatMin(m), MatMax(m)}

C17_QuadraticObjective ==
  (ob_pc = "done" /\ ob_in.objective_type = "kQuadratic") =>
    LET diff == Difference(HeldMatrix, ob_in.output)
    IN  /\ ob_out.tot_objf = RMul(Rat(-1, 2), Dot(diff, diff))
        /\ ob_out.tot_weight = Rat(Len(ob_in.logical), 1)
        /\ ob_out.deriv.given = ob_in.supply_deriv
        /\ ob_in.supply_deriv => ob_out.deriv.mat = diff
        /\ ob_in.output = HeldMatrix =>
             /\ ob_out.tot_objf = Zero
             /\ ob_in.supply_deriv =>
                  \A r \in 1..Len(diff), c \in 1..Len(diff[1]) :
                    ob_out.deriv.mat[r][c] = Zero

\* kQuadratic has been computed for an output that is not the supervision,
\* of two rows and three columns, the derivative asked for
C17_Witness ==
  /\ ob_pc = "done"
  /\ ob_in.objective_type = "kQuadratic"
  /\ ob_in.supply_deriv
  /\ Len(ob_in.logical) = 2
  /\ Len(ob_in.logical[1]) = 3
  /\ ob_in.output # HeldMatrix
  /\ RLess(ob_out.tot_objf, Zero)

\* kQuadratic has been computed for an output that is the supervision
C17_WitnessEqual ==
  /\ ob_pc = "done"
  /\ ob_in.objective_type = "kQuadratic"
  /\ ob_in.supply_deriv
  /\ ob_in.output = HeldMatrix
  /\ Len(ob_in.logical) = 2

(***************************************************************************)
(* Properties of the delta model without momentum                          *)
(***************************************************************************)
\* C18: with momentum 0 the delta model is all zeros once constructed, at the
\* start of every sub-step and when Train returns, whether the update of a
\* sub-step succeeded or failed; a sub-step then applies its own gradient
\* only, so the gradient of a backstitch step does not reach the normal step
C18_DeltaZeroWithoutMomentum ==
  (Constructed /\ config_.momentum = Zero) =>
    /\ delta_nnet_.params = Zero
    /\ \A i \in 1..Len(subs) :
         /\ subs[i].delta_before = Zero
         /\ subs[i].delta_after = Zero
         /\ subs[i].accumulated = subs[i].gradient

\* Train has returned from a backstitch pair whose backstitch step failed to
\* update and whose normal step had a gradient of its own
C18_Witness ==
  /\ pc = "idle"
  /\ config_.momentum = Zero
  /\ Len(subs) = 2
  /\ subs[1].is_backstitch_step
  /\ ~subs[1].success
  /\ subs[1].gradient = NaN
  /\ subs[2].gradient = Rat(3, 1)
  /\ subs[2].success
  /\ delta_nnet_.params = Zero

====
